---- MODULE Spec2Model ----
(***************************************************************************)
(* Model of the transcript merger.                                         *)
(*                                                                         *)
(* Structured sequential merger: mergeParsedFilesSequential of srt-merge.  *)
(* The function is pure; it is modelled as an operator computed the way    *)
(* the code computes it (base end per file, the running-shift loop, the    *)
(* apply loop, the optional sort, the validation scan with its break).     *)
(* SpecSeq draws a file list and an options object and applies it.         *)
(*                                                                         *)
(* File indices are 0-based as in the code (sourceFileIndex, the keys of   *)
(* perFileOffsetMs, the file_{i}_... warnings); TLA+ sequences are 1-based,*)
(* so file i is parsedFiles[i + 1].                                        *)
(***************************************************************************)
EXTENDS Integers, Sequences, FiniteSets, TLC

\* ---- bounds of the model ------------------------------------------------
MaxFiles == 3
MaxCues == 2
MaxTotalCues == 3
MaxTime == 1
MaxOverrides == 1

\* ---- values -------------------------------------------------------------
\* A number that Number.isFinite rejects (NaN, Infinity, undefined).  The
\* code treats all of them alike; one value outside the range of every
\* finite time of the model stands for them.
NonFinite == 1000000
\* The null that baseEndMs holds for a file without a finite end.
Null == NonFinite + 1

IsFinite(x) == x # NonFinite

TimeVals == (-1 .. MaxTime) \cup {NonFinite}
OffsetVals == {-1, MaxTime + 1}

\* Math.max(...xs) / Math.min(...xs) of a non-empty array of finite numbers.
RECURSIVE MathMax(_)
MathMax(xs) ==
  IF Len(xs) = 1 THEN Head(xs)
  ELSE LET m == MathMax(Tail(xs)) IN IF Head(xs) > m THEN Head(xs) ELSE m

RECURSIVE MathMin(_)
MathMin(xs) ==
  IF Len(xs) = 1 THEN Head(xs)
  ELSE LET m == MathMin(Tail(xs)) IN IF Head(xs) < m THEN Head(xs) ELSE m

\* cues.map(c => Number.isFinite(c.endMs) ? c.endMs : null).filter(x => x !== null)
FiniteEnds(cues) ==
  LET mapped == [k \in DOMAIN cues |-> IF IsFinite(cues[k].endMs) THEN cues[k].endMs ELSE Null]
  IN SelectSeq(mapped, LAMBDA x : x # Null)

FiniteStarts(cues) ==
  LET mapped == [k \in DOMAIN cues |-> IF IsFinite(cues[k].startMs) THEN cues[k].startMs ELSE Null]
  IN SelectSeq(mapped, LAMBDA x : x # Null)

\* baseEndMs[i]: the maximum finite endMs of the file, or null.
baseEndMs(pf) ==
  LET ends == FiniteEnds(pf.cues)
  IN IF Len(ends) = 0 THEN Null ELSE MathMax(ends)

\* options.perFileOffsetMs || {}
perFileOffsetMs(options) ==
  IF "perFileOffsetMs" \in DOMAIN options THEN options.perFileOffsetMs ELSE <<>>

\* options.sortFinalByStart ?? false
sortFinalByStart(options) ==
  IF "sortFinalByStart" \in DOMAIN options THEN options.sortFinalByStart ELSE FALSE

\* Advance with the priorities swapped: the file's own maximum end wins over
\* its perFileOffsetMs entry.
AdvanceBaseEndFirst(parsedFiles, offsets, i) ==
  IF baseEndMs(parsedFiles[i + 1]) # Null THEN baseEndMs(parsedFiles[i + 1])
  ELSE IF i \in DOMAIN offsets THEN offsets[i]
  ELSE 0

\* Advance by the span of the file (maximum end minus minimum start) where
\* the code advances by the maximum end.
AdvanceBySpan(parsedFiles, offsets, i) ==
  IF i \in DOMAIN offsets THEN offsets[i]
  ELSE LET cues == parsedFiles[i + 1].cues
           starts == FiniteStarts(cues)
           ends == FiniteEnds(cues)
       IN IF Len(starts) # 0 /\ Len(ends) # 0
          THEN LET dur == MathMax(ends) - MathMin(starts)
               IN IF dur > 0 THEN dur ELSE 0
          ELSE 0

\* What one pass of the running-shift loop adds to runningShift for file i.
Advance(parsedFiles, offsets, i) ==
  IF i \in DOMAIN offsets THEN offsets[i]
  ELSE IF baseEndMs(parsedFiles[i + 1]) # Null THEN baseEndMs(parsedFiles[i + 1])
  ELSE LET cues == parsedFiles[i + 1].cues
           starts == FiniteStarts(cues)
           ends == FiniteEnds(cues)
       IN IF Len(starts) # 0 /\ Len(ends) # 0
          THEN LET dur == MathMax(ends) - MathMin(starts)
               IN IF dur > 0 THEN dur ELSE 0
          ELSE 0

\* ShiftLoop that advances runningShift before it assigns cumulativeShift[i]:
\* a file is moved by its own duration too.
RECURSIVE ShiftLoopAdvanceFirst(_, _, _, _)
ShiftLoopAdvanceFirst(parsedFiles, offsets, i, runningShift) ==
  IF i >= Len(parsedFiles) THEN <<>>
  ELSE <<runningShift + Advance(parsedFiles, offsets, i)>> \o
       ShiftLoopAdvanceFirst(parsedFiles, offsets, i + 1,
                             runningShift + Advance(parsedFiles, offsets, i))

\* The loop "for i: cumulativeShift[i] = runningShift; runningShift += ...",
\* run from file i with the given runningShift; the result is the tail of
\* cumulativeShift from file i on.
RECURSIVE ShiftLoop(_, _, _, _)
ShiftLoop(parsedFiles, offsets, i, runningShift) ==
  IF i >= Len(parsedFiles) THEN <<>>
  ELSE <<runningShift>> \o
       ShiftLoop(parsedFiles, offsets, i + 1,
                 runningShift + Advance(parsedFiles, offsets, i))

\* cumulativeShift that reads useEffectiveEndMs: switched off, no file moves
\* the files after it.
cumulativeShiftReadsEffectiveEnd(parsedFiles, options) ==
  IF "useEffectiveEndMs" \in DOMAIN options /\ ~options.useEffectiveEndMs
  THEN [i \in 1 .. Len(parsedFiles) |-> 0]
  ELSE ShiftLoop(parsedFiles, perFileOffsetMs(options), 0, 0)

\* cumulativeShift, as a sequence: cumulativeShift(..)[i + 1] is the shift of file i.
cumulativeShift(parsedFiles, options) ==
  ShiftLoop(parsedFiles, perFileOffsetMs(options), 0, 0)

\* `file_${i}_no_cues`, `file_${i}_malformed_cue`
FileWarning(i, what) == "file_" \o ToString(i) \o "_" \o what

\* ApplyCues that tests startMs only before it takes a cue as well-formed.
RECURSIVE ApplyCuesStartTestOnly(_, _, _, _)
ApplyCuesStartTestOnly(cues, i, shift, k) ==
  IF k > Len(cues) THEN [merged |-> <<>>, warnings |-> <<>>]
  ELSE LET cue == cues[k]
           rest == ApplyCuesStartTestOnly(cues, i, shift, k + 1)
       IN IF ~IsFinite(cue.startMs)
          THEN [merged |-> rest.merged,
                warnings |-> <<FileWarning(i, "malformed_cue")>> \o rest.warnings]
          ELSE [merged |-> <<[startMs |-> cue.startMs + shift,
                              endMs |-> cue.endMs + shift,
                              text |-> cue.text,
                              sourceFileIndex |-> i]>> \o rest.merged,
                warnings |-> rest.warnings]

\* ApplyCues that shifts startMs only.
RECURSIVE ApplyCuesEndUnshifted(_, _, _, _)
ApplyCuesEndUnshifted(cues, i, shift, k) ==
  IF k > Len(cues) THEN [merged |-> <<>>, warnings |-> <<>>]
  ELSE LET cue == cues[k]
           rest == ApplyCuesEndUnshifted(cues, i, shift, k + 1)
       IN IF ~IsFinite(cue.startMs) \/ ~IsFinite(cue.endMs)
          THEN [merged |-> rest.merged,
                warnings |-> <<FileWarning(i, "malformed_cue")>> \o rest.warnings]
          ELSE [merged |-> <<[startMs |-> cue.startMs + shift,
                              endMs |-> cue.endMs,
                              text |-> cue.text,
                              sourceFileIndex |-> i]>> \o rest.merged,
                warnings |-> rest.warnings]

\* The inner loop "for (const cue of pf.cues)" from cue k on: a cue with a
\* non-finite time is skipped with a warning, every other cue is pushed
\* shifted and stamped with the file index.
RECURSIVE ApplyCues(_, _, _, _)
ApplyCues(cues, i, shift, k) ==
  IF k > Len(cues) THEN [merged |-> <<>>, warnings |-> <<>>]
  ELSE LET cue == cues[k]
           rest == ApplyCues(cues, i, shift, k + 1)
       IN IF ~IsFinite(cue.startMs) \/ ~IsFinite(cue.endMs)
          THEN [merged |-> rest.merged,
                warnings |-> <<FileWarning(i, "malformed_cue")>> \o rest.warnings]
          ELSE [merged |-> <<[startMs |-> cue.startMs + shift,
                              endMs |-> cue.endMs + shift,
                              text |-> cue.text,
                              sourceFileIndex |-> i]>> \o rest.merged,
                warnings |-> rest.warnings]

\* One pass of the outer apply loop, for file i.
ApplyFile(pf, i, shift) ==
  IF Len(pf.cues) = 0
  THEN [merged |-> <<>>, warnings |-> <<FileWarning(i, "no_cues")>>]
  ELSE ApplyCues(pf.cues, i, shift, 1)

\* The outer apply loop from file i on.  The shifts are integers, for which
\* "cumulativeShift[i] || 0" is cumulativeShift[i].
RECURSIVE ApplyShifts(_, _, _)
ApplyShifts(parsedFiles, shifts, i) ==
  IF i >= Len(parsedFiles) THEN [merged |-> <<>>, warnings |-> <<>>]
  ELSE LET here == ApplyFile(parsedFiles[i + 1], i, shifts[i + 1])
           rest == ApplyShifts(parsedFiles, shifts, i + 1)
       IN [merged |-> here.merged \o rest.merged,
           warnings |-> here.warnings \o rest.warnings]

\* InsertByStart that goes in front of the cues of equal startMs.
RECURSIVE InsertBeforeEqual(_, _)
InsertBeforeEqual(sorted, c) ==
  IF Len(sorted) = 0 THEN <<c>>
  ELSE IF sorted[Len(sorted)].startMs < c.startMs THEN Append(sorted, c)
  ELSE Append(InsertBeforeEqual(SubSeq(sorted, 1, Len(sorted) - 1), c), sorted[Len(sorted)])

\* merged.sort((a, b) => a.startMs - b.startMs): Array.prototype.sort is
\* stable, so a cue goes behind every cue whose startMs is not larger.
RECURSIVE InsertByStart(_, _)
InsertByStart(sorted, c) ==
  IF Len(sorted) = 0 THEN <<c>>
  ELSE IF sorted[Len(sorted)].startMs <= c.startMs THEN Append(sorted, c)
  ELSE Append(InsertByStart(SubSeq(sorted, 1, Len(sorted) - 1), c), sorted[Len(sorted)])

RECURSIVE SortByStart(_)
SortByStart(cues) ==
  IF Len(cues) = 0 THEN <<>>
  ELSE InsertByStart(SortByStart(SubSeq(cues, 1, Len(cues) - 1)), cues[Len(cues)])

\* OverlapAt that compares neighbours whatever file they come from.
OverlapAtAnyFile(merged, k) ==
  /\ k > 1
  /\ merged[k - 1].endMs > merged[k].startMs

\* The same-file overlap test of the validation scan at position k (1-based).
OverlapAt(merged, k) ==
  /\ k > 1
  /\ merged[k - 1].endMs > merged[k].startMs
  /\ merged[k - 1].sourceFileIndex = merged[k].sourceFileIndex

\* Validate without the break: the scan goes on behind a negative cue.
RECURSIVE ValidateNoBreak(_, _, _, _)
ValidateNoBreak(merged, k, warnings, errors) ==
  IF k > Len(merged) THEN [warnings |-> warnings, errors |-> errors]
  ELSE LET c == merged[k]
           e1 == IF (c.startMs < 0 \/ c.endMs < 0) /\ Len(errors) = 0
                 THEN Append(errors, "negative_timestamps") ELSE errors
           w1 == IF c.endMs < c.startMs
                 THEN Append(warnings, "cue_end_before_start") ELSE warnings
           w2 == IF OverlapAt(merged, k)
                 THEN Append(w1, "overlap_detected") ELSE w1
       IN ValidateNoBreak(merged, k + 1, w2, e1)

\* Validate that looks at startMs only when it tests for a negative time.
RECURSIVE ValidateStartOnly(_, _, _, _)
ValidateStartOnly(merged, k, warnings, errors) ==
  IF k > Len(merged) THEN [warnings |-> warnings, errors |-> errors]
  ELSE LET c == merged[k]
       IN IF c.startMs < 0
          THEN [warnings |-> warnings, errors |-> Append(errors, "negative_timestamps")]
          ELSE LET w1 == IF c.endMs < c.startMs
                         THEN Append(warnings, "cue_end_before_start") ELSE warnings
                   w2 == IF OverlapAt(merged, k)
                         THEN Append(w1, "overlap_detected") ELSE w1
               IN ValidateStartOnly(merged, k + 1, w2, errors)

\* The validation scan from position k on, with the warnings and errors
\* collected so far; a negative time records the error and breaks.
RECURSIVE Validate(_, _, _, _)
Validate(merged, k, warnings, errors) ==
  IF k > Len(merged) THEN [warnings |-> warnings, errors |-> errors]
  ELSE LET c == merged[k]
       IN IF c.startMs < 0 \/ c.endMs < 0
          THEN [warnings |-> warnings, errors |-> Append(errors, "negative_timestamps")]
          ELSE LET w1 == IF c.endMs < c.startMs
                         THEN Append(warnings, "cue_end_before_start") ELSE warnings
                   w2 == IF OverlapAt(merged, k)
                         THEN Append(w1, "overlap_detected") ELSE w1
               IN Validate(merged, k + 1, w2, errors)

\* mergeParsedFilesSequential without the validation of its input: an empty
\* list runs through the loops.
mergeWithoutInputCheck(parsedFiles, options) ==
  LET shifts == cumulativeShift(parsedFiles, options)
      applied == ApplyShifts(parsedFiles, shifts, 0)
      merged == IF sortFinalByStart(options)
                THEN SortByStart(applied.merged) ELSE applied.merged
      checked == Validate(merged, 1, applied.warnings, <<>>)
  IN [mergedCues |-> merged, warnings |-> checked.warnings, errors |-> checked.errors]

mergeParsedFilesSequential(parsedFiles, options) ==
  IF Len(parsedFiles) = 0
  THEN [mergedCues |-> <<>>, warnings |-> <<"no_files">>, errors |-> <<"no_files_uploaded">>]
  ELSE LET shifts == cumulativeShift(parsedFiles, options)
           applied == ApplyShifts(parsedFiles, shifts, 0)
           merged == IF sortFinalByStart(options)
                     THEN SortByStart(applied.merged) ELSE applied.merged
           checked == Validate(merged, 1, applied.warnings, <<>>)
       IN [mergedCues |-> merged, warnings |-> checked.warnings, errors |-> checked.errors]

\* ---- the inputs drawn by SpecSeq ------------------------------------------
\* The merger never reads a cue's text; every cue of an input gets a text of
\* its own, so that a cue of the output can be traced to its source.
CueText(i, k) == "f" \o ToString(i) \o "c" \o ToString(k)

\* The shape of a file list: the number of cues of each file.
RECURSIVE Sum(_)
Sum(ns) == IF Len(ns) = 0 THEN 0 ELSE Head(ns) + Sum(Tail(ns))

Shapes ==
  {ns \in UNION {[1 .. n -> 0 .. MaxCues] : n \in 0 .. MaxFiles} : Sum(ns) <= MaxTotalCues}

\* Start and end times of all cues of a file list of that shape, file after file.
TimePairs == TimeVals \X TimeVals
ShapeTimes(ns) == [1 .. Sum(ns) -> TimePairs]

\* The files of shape ns whose cues carry the times ts.
MakeFiles(ns, ts) ==
  [f \in DOMAIN ns |->
     [cues |-> [k \in 1 .. ns[f] |->
                  LET t == ts[Sum(SubSeq(ns, 1, f - 1)) + k]
                  IN [startMs |-> t[1], endMs |-> t[2], text |-> CueText(f - 1, k - 1)]]]]

\* perFileOffsetMs maps with at most MaxOverrides keys among the file indices.
OffsetMaps(n) ==
  UNION {[keys -> OffsetVals] :
           keys \in {K \in SUBSET (0 .. n - 1) : Cardinality(K) <= MaxOverrides}}

NoOptions == [x \in {} |-> x]

\* The options objects tried: none, sortFinalByStart alone, useEffectiveEndMs
\* alone, perFileOffsetMs alone, and perFileOffsetMs with the sort switched on.
OptionSets(n) ==
  {NoOptions}
    \cup [sortFinalByStart : BOOLEAN]
    \cup [useEffectiveEndMs : BOOLEAN]
    \cup [perFileOffsetMs : OffsetMaps(n) \ {NoOptions}]
    \cup [perFileOffsetMs : OffsetMaps(n) \ {NoOptions}, sortFinalByStart : {TRUE}]

\* ---- state ----------------------------------------------------------------
\* parsedFiles is the file list a caller holds; options and result are the
\* options of its call of mergeParsedFilesSequential and what the call returned.
\* srtFiles is the list of {name, content} a caller of mergeSrtFiles holds and
\* merged what that call returned (<<>> before the call).
\* The others are the App's state: files, computedOffsets and mergeResult are
\* its useState cells, mode and customOffset those of the TimelineAlignmentCard
\* it renders, uploads the calls of handleFilesSelected that are still reading
\* and nextId the number of the next file id.
\* content, lineNo, parser and returned belong to a call of permissiveParseSrt
\* followed line by line: the lines of its argument, the number of lines the
\* loop has passed, the locals of the loop and what the call returned.
VARIABLES parsedFiles, options, pc, result, srtFiles, merged,
          files, computedOffsets, mergeResult, mode, customOffset, uploads, nextId,
          content, lineNo, parser, returned

appVars == <<files, computedOffsets, mergeResult, mode, customOffset, uploads, nextId>>
parserVars == <<content, lineNo, parser, returned>>
vars == <<parsedFiles, options, pc, result, srtFiles, merged, appVars, parserVars>>

\* No call of permissiveParseSrt is being followed.
ParserIdle ==
  /\ content = <<>>
  /\ lineNo = 0
  /\ parser = <<>>
  /\ returned = <<>>

\* useState(null) of mergeResult.
NoMergeResult == <<>>
\* defaultCustomOffset '00:00:00,000', as milliseconds.
DefaultCustomOffset == 0

\* The App as it is first rendered.
AppStart ==
  /\ files = <<>>
  /\ computedOffsets = <<>>
  /\ mergeResult = NoMergeResult
  /\ mode = "auto"
  /\ customOffset = DefaultCustomOffset
  /\ uploads = <<>>
  /\ nextId = 1

NoResult == [mergedCues |-> <<>>, warnings |-> <<>>, errors |-> <<>>]

SeqInit ==
  /\ \E ns \in Shapes : \E ts \in ShapeTimes(ns) : parsedFiles = MakeFiles(ns, ts)
  /\ options = NoOptions
  /\ pc = "idle"
  /\ result = NoResult
  /\ srtFiles = <<>>
  /\ merged = <<>>
  /\ AppStart
  /\ ParserIdle

\* A call mergeParsedFilesSequential(parsedFiles, opts) by the caller.
MergeSequential ==
  /\ pc = "idle"
  /\ \E opts \in OptionSets(Len(parsedFiles)) :
       /\ options' = opts
       /\ result' = mergeParsedFilesSequential(parsedFiles, opts)
  /\ pc' = "done"
  /\ UNCHANGED <<parsedFiles, srtFiles, merged, appVars, parserVars>>

SeqNext == MergeSequential

SpecSeq == SeqInit /\ [][SeqNext]_vars

\* ---- properties of the structured sequential merger ------------------------
Done == pc = "done"

NumFiles == Len(parsedFiles)
FileIndices == 0 .. NumFiles - 1
CuesOfFile(i) == parsedFiles[i + 1].cues
Overrides == perFileOffsetMs(options)

Count(seq, x) == Cardinality({k \in DOMAIN seq : seq[k] = x})
SetMax(S) == CHOOSE x \in S : \A y \in S : y <= x
SetMin(S) == CHOOSE x \in S : \A y \in S : x <= y

FiniteCue(c) == IsFinite(c.startMs) /\ IsFinite(c.endMs)
FiniteEndSet(i) == {CuesOfFile(i)[k].endMs : k \in DOMAIN CuesOfFile(i)} \ {NonFinite}
FiniteStartSet(i) == {CuesOfFile(i)[k].startMs : k \in DOMAIN CuesOfFile(i)} \ {NonFinite}

\* The duration of file j for a given override map: the override, else the
\* maximum finite end, else the derived span, else 0.
DurationWith(over, j) ==
  IF j \in DOMAIN over THEN over[j]
  ELSE IF FiniteEndSet(j) # {} THEN SetMax(FiniteEndSet(j))
  ELSE IF FiniteEndSet(j) # {} /\ FiniteStartSet(j) # {}
       THEN LET d == SetMax(FiniteEndSet(j)) - SetMin(FiniteStartSet(j))
            IN IF d > 0 THEN d ELSE 0
  ELSE 0

RECURSIVE ShiftWith(_, _)
ShiftWith(over, i) == IF i = 0 THEN 0 ELSE ShiftWith(over, i - 1) + DurationWith(over, i - 1)

Duration(j) == DurationWith(Overrides, j)
ExpectedShift(i) == ShiftWith(Overrides, i)

\* The cue of file i that carries the text of merged cue m, shifted by d.
IsShiftedCueOf(m, i, d) ==
  \E k \in DOMAIN CuesOfFile(i) :
    LET c == CuesOfFile(i)[k]
    IN /\ c.text = m.text
       /\ m.startMs = c.startMs + d
       /\ m.endMs = c.endMs + d

EmittedBy(i) == {k \in DOMAIN result.mergedCues : result.mergedCues[k].sourceFileIndex = i}

\* C1: every emitted cue of file i is a cue of file i moved by the sum of the
\* durations of the files before it (override, else maximum finite end, else
\* derived span, else 0); the cues of file 0 are not moved.
C1_CumulativeShift ==
  Done =>
    \A k \in DOMAIN result.mergedCues :
      LET m == result.mergedCues[k]
      IN /\ m.sourceFileIndex \in FileIndices
         /\ IsShiftedCueOf(m, m.sourceFileIndex, ExpectedShift(m.sourceFileIndex))
         /\ (m.sourceFileIndex = 0 => IsShiftedCueOf(m, 0, 0))

\* Three files that all emit a cue, an override among them, and shifts that
\* differ from file to file.
C1_Witness ==
  /\ Done
  /\ NumFiles = 3
  /\ \A i \in FileIndices : EmittedBy(i) # {}
  /\ DOMAIN Overrides # {}
  /\ ExpectedShift(1) # 0
  /\ ExpectedShift(2) # ExpectedShift(1)
  /\ ExpectedShift(2) # 0

\* The finite cues of the files from i on, shifted and stamped, file after file.
ShiftedCues(i) ==
  LET finite == SelectSeq(CuesOfFile(i), FiniteCue)
  IN [k \in DOMAIN finite |->
        [startMs |-> finite[k].startMs + ExpectedShift(i),
         endMs |-> finite[k].endMs + ExpectedShift(i),
         text |-> finite[k].text,
         sourceFileIndex |-> i]]

RECURSIVE ConcatFrom(_)
ConcatFrom(i) == IF i >= NumFiles THEN <<>> ELSE ShiftedCues(i) \o ConcatFrom(i + 1)

Unsorted == ConcatFrom(0)

RECURSIVE InputCuesFrom(_)
InputCuesFrom(i) == IF i >= NumFiles THEN 0 ELSE Len(CuesOfFile(i)) + InputCuesFrom(i + 1)

AllCuesFinite == \A i \in FileIndices : \A k \in DOMAIN CuesOfFile(i) : FiniteCue(CuesOfFile(i)[k])

\* C2: without the sort, mergedCues is the concatenation in file order then
\* cue order of the finite input cues, each shifted by its file's shift with
\* its text kept and its file index stamped; with only finite cues the output
\* is as long as the input.
C2_Concatenation ==
  (Done /\ ~sortFinalByStart(options)) =>
    /\ result.mergedCues = Unsorted
    /\ (AllCuesFinite => Len(result.mergedCues) = InputCuesFrom(0))

\* Two files are merged without the sort, the second one shifted, with a
\* non-finite cue dropped on the way.
C2_Witness ==
  /\ Done
  /\ ~sortFinalByStart(options)
  /\ NumFiles >= 2
  /\ ~AllCuesFinite
  /\ EmittedBy(0) # {}
  /\ EmittedBy(1) # {}
  /\ ExpectedShift(1) # 0
  /\ Len(CuesOfFile(1)) = 2

\* The options with perFileOffsetMs[i] set to v and everything else kept.
WithOverride(opts, i, v) ==
  LET old == perFileOffsetMs(opts)
      new == [j \in DOMAIN old \cup {i} |-> IF j = i THEN v ELSE old[j]]
  IN IF "sortFinalByStart" \in DOMAIN opts
     THEN [perFileOffsetMs |-> new, sortFinalByStart |-> opts.sortFinalByStart]
     ELSE [perFileOffsetMs |-> new]

\* The cues of a merge result that come from file j, in the order of the result.
CuesFrom(r, j) == SelectSeq(r.mergedCues, LAMBDA m : m.sourceFileIndex = j)

Moved(cues, d) ==
  [k \in DOMAIN cues |->
     [startMs |-> cues[k].startMs + d, endMs |-> cues[k].endMs + d,
      text |-> cues[k].text, sourceFileIndex |-> cues[k].sourceFileIndex]]

\* The values tried for an override that is set or changed.
OverrideVals == {-1, MaxTime + 2}

\* C3: setting or changing perFileOffsetMs[i] leaves the emitted cues of files
\* 0..i as they were and moves every emitted cue of each later file by the
\* override minus the duration file i had before.
C3_OverrideMovesLaterFilesOnly ==
  Done =>
    \A i \in FileIndices : \A v \in OverrideVals :
      \A other \in {mergeParsedFilesSequential(parsedFiles, WithOverride(options, i, v))} :
        \A j \in FileIndices :
          IF j <= i
          THEN CuesFrom(other, j) = CuesFrom(result, j)
          ELSE CuesFrom(other, j) = Moved(CuesFrom(result, j), v - Duration(i))

\* The call itself carries an override for the middle file of three that is
\* not the duration the file would have had, and all three files emit cues.
C3_Witness ==
  /\ Done
  /\ NumFiles = 3
  /\ \A i \in FileIndices : EmittedBy(i) # {}
  /\ 1 \in DOMAIN Overrides
  /\ Overrides[1] # DurationWith(<<>>, 1)
  /\ CuesFrom(result, 2) #
       CuesFrom(mergeParsedFilesSequential(parsedFiles, NoOptions), 2)
  /\ CuesFrom(result, 1) =
       CuesFrom(mergeParsedFilesSequential(parsedFiles, NoOptions), 1)

\* C4: an empty file list gives no cues, the one error no_files_uploaded and
\* the one warning no_files.
C4_EmptyInput ==
  (Done /\ NumFiles = 0) =>
    /\ result.mergedCues = <<>>
    /\ result.errors = <<"no_files_uploaded">>
    /\ result.warnings = <<"no_files">>

C4_Witness == Done /\ NumFiles = 0 /\ result.errors # <<>>

NegativeCue(m) == m.startMs < 0 \/ m.endMs < 0

RECURSIVE FiniteCuesFrom(_)
FiniteCuesFrom(i) ==
  IF i >= NumFiles THEN 0
  ELSE Len(SelectSeq(CuesOfFile(i), FiniteCue)) + FiniteCuesFrom(i + 1)

\* C5: for a non-empty file list, negative_timestamps is among the errors
\* exactly when some merged cue has a negative start or end; it is recorded
\* at most once and the result still holds every finite cue of the input.
C5_NegativeTimestamps ==
  (Done /\ NumFiles > 0) =>
    /\ Count(result.errors, "negative_timestamps") > 0
         <=> \E k \in DOMAIN result.mergedCues : NegativeCue(result.mergedCues[k])
    /\ Count(result.errors, "negative_timestamps") <= 1
    /\ Len(result.mergedCues) = FiniteCuesFrom(0)

\* Two merged cues are negative, the first only in its end, and cues follow
\* the first negative one.
C5_Witness ==
  /\ Done
  /\ NumFiles > 0
  /\ result.errors = <<"negative_timestamps">>
  /\ Len(result.mergedCues) = 3
  /\ \E k \in 1 .. 2 :
       /\ result.mergedCues[k].startMs >= 0
       /\ result.mergedCues[k].endMs < 0
       /\ \A h \in 1 .. k - 1 : ~NegativeCue(result.mergedCues[h])
  /\ NegativeCue(result.mergedCues[3])

EndBeforeStart(m) == m.endMs < m.startMs

\* The positions of mergedCues that the validation scan reaches: those in
\* front of the first cue with a negative time.
Scanned ==
  {k \in DOMAIN result.mergedCues : \A h \in 1 .. k : ~NegativeCue(result.mergedCues[h])}

\* C6 as stated: cue_end_before_start is recorded once for every merged cue
\* that ends before it starts.
C6_Original ==
  Done =>
    Count(result.warnings, "cue_end_before_start")
      = Cardinality({k \in DOMAIN result.mergedCues : EndBeforeStart(result.mergedCues[k])})

\* C6: every merged cue that ends before it starts is kept, and
\* cue_end_before_start is recorded once for each such cue that stands in
\* front of the first merged cue with a negative start or end (for each such
\* cue when no merged cue is negative).
C6_EndBeforeStartUntilNegative ==
  Done =>
    /\ Count(result.warnings, "cue_end_before_start")
         = Cardinality({k \in Scanned : EndBeforeStart(result.mergedCues[k])})
    /\ (result.errors = <<>> =>
          Count(result.warnings, "cue_end_before_start")
            = Cardinality({k \in DOMAIN result.mergedCues :
                             EndBeforeStart(result.mergedCues[k])}))
    /\ (NumFiles > 0 => Len(result.mergedCues) = FiniteCuesFrom(0))

\* A reversed cue is flagged, a negative cue stops the scan, and a reversed
\* cue behind it goes unflagged.
C6_Witness ==
  /\ Done
  /\ Len(result.mergedCues) = 3
  /\ EndBeforeStart(result.mergedCues[1]) /\ 1 \in Scanned
  /\ NegativeCue(result.mergedCues[2])
  /\ EndBeforeStart(result.mergedCues[3]) /\ ~NegativeCue(result.mergedCues[3])
  /\ Count(result.warnings, "cue_end_before_start") = 1

MalformedIn(i) == {k \in DOMAIN CuesOfFile(i) : ~FiniteCue(CuesOfFile(i)[k])}

\* C7: a cue with a non-finite start or end is left out and recorded once as
\* file_{i}_malformed_cue; a file without cues is recorded once as
\* file_{i}_no_cues, emits nothing, and moves the next file on by its
\* perFileOffsetMs entry when it has one and by 0 otherwise.
C7_MalformedAndEmpty ==
  (Done /\ NumFiles > 0) =>
    \A i \in FileIndices :
      /\ Count(result.warnings, FileWarning(i, "malformed_cue")) = Cardinality(MalformedIn(i))
      /\ \A k \in MalformedIn(i) : \A h \in DOMAIN result.mergedCues :
           result.mergedCues[h].text # CuesOfFile(i)[k].text
      /\ Count(result.warnings, FileWarning(i, "no_cues"))
           = (IF Len(CuesOfFile(i)) = 0 THEN 1 ELSE 0)
      /\ Len(CuesOfFile(i)) = 0 =>
           /\ EmittedBy(i) = {}
           /\ i + 1 < NumFiles =>
                \A h \in EmittedBy(i + 1) :
                  IsShiftedCueOf(result.mergedCues[h], i + 1,
                                 ExpectedShift(i)
                                   + (IF i \in DOMAIN Overrides THEN Overrides[i] ELSE 0))

\* A file without cues carries an override and is followed by a file that
\* emits a cue and drops a malformed one whose other time is finite.
C7_Witness ==
  /\ Done
  /\ NumFiles >= 2
  /\ Len(CuesOfFile(0)) = 0
  /\ 0 \in DOMAIN Overrides
  /\ EmittedBy(1) # {}
  /\ \E k \in MalformedIn(1) : IsFinite(CuesOfFile(1)[k].startMs)
  /\ Len(result.warnings) >= 2

PositionIn(seq, x) == CHOOSE k \in DOMAIN seq : seq[k] = x

\* C8: with sortFinalByStart = true mergedCues is a permutation of the
\* unsorted output in non-decreasing startMs order in which cues of equal
\* startMs keep their file-then-cue order; otherwise the file-then-cue order
\* is kept whatever the startMs values are.
C8_StableSort ==
  Done =>
    IF sortFinalByStart(options)
    THEN /\ Len(result.mergedCues) = Len(Unsorted)
         /\ \A k \in DOMAIN Unsorted : \E h \in DOMAIN result.mergedCues :
              result.mergedCues[h] = Unsorted[k]
         /\ \A h \in DOMAIN result.mergedCues : \A g \in DOMAIN result.mergedCues :
              h < g =>
                /\ result.mergedCues[h].startMs <= result.mergedCues[g].startMs
                /\ result.mergedCues[h].startMs = result.mergedCues[g].startMs =>
                     PositionIn(Unsorted, result.mergedCues[h])
                       < PositionIn(Unsorted, result.mergedCues[g])
    ELSE \A h \in DOMAIN result.mergedCues : result.mergedCues[h] = Unsorted[h]

\* The sort moves a cue to the front across two cues of equal startMs.
C8_Witness ==
  /\ Done
  /\ sortFinalByStart(options)
  /\ Len(Unsorted) = 3
  /\ Unsorted[1].startMs = Unsorted[2].startMs
  /\ Unsorted[3].startMs < Unsorted[1].startMs
  /\ result.mergedCues = <<Unsorted[3], Unsorted[1], Unsorted[2]>>

\* The sort is off and the output is out of startMs order.
C8_WitnessUnsorted ==
  /\ Done
  /\ ~sortFinalByStart(options)
  /\ \E h \in DOMAIN result.mergedCues : \E g \in DOMAIN result.mergedCues :
       h < g /\ result.mergedCues[h].startMs > result.mergedCues[g].startMs

Overlapping(k) == result.mergedCues[k - 1].endMs > result.mergedCues[k].startMs
SameFile(k) ==
  result.mergedCues[k - 1].sourceFileIndex = result.mergedCues[k].sourceFileIndex
Neighbours == {k \in DOMAIN result.mergedCues : k > 1}

\* C9: overlap_detected is recorded only for neighbours in the final sequence
\* that come from the same file and of which the earlier ends after the later
\* starts: there are no more such warnings than such pairs, and none at all
\* when every overlapping pair of neighbours comes from two files.
C9_OverlapSameFileOnly ==
  Done =>
    /\ Count(result.warnings, "overlap_detected")
         <= Cardinality({k \in Neighbours : Overlapping(k) /\ SameFile(k)})
    /\ Count(result.warnings, "overlap_detected")
         = Cardinality({k \in Neighbours \cap Scanned : Overlapping(k) /\ SameFile(k)})

\* Neighbours from two files overlap without a warning, neighbours from one
\* file overlap with one.
C9_Witness ==
  /\ Done
  /\ result.errors = <<>>
  /\ Len(result.mergedCues) = 3
  /\ \E k \in Neighbours : Overlapping(k) /\ ~SameFile(k)
  /\ \E k \in Neighbours : Overlapping(k) /\ SameFile(k)
  /\ Count(result.warnings, "overlap_detected") = 1

\* Every cue of every file has 0 <= startMs <= endMs and ends no later than
\* the next cue of its file starts.
WellFormedFiles ==
  \A i \in FileIndices :
    \A k \in DOMAIN CuesOfFile(i) :
      LET c == CuesOfFile(i)[k]
      IN /\ FiniteCue(c)
         /\ 0 <= c.startMs
         /\ c.startMs <= c.endMs
         /\ k > 1 => CuesOfFile(i)[k - 1].endMs <= c.startMs

DefaultOptions == DOMAIN Overrides = {} /\ ~sortFinalByStart(options)

\* C10: for a non-empty list of such files and default options there is no
\* error and every merged cue ends no later than the next one starts, across
\* file boundaries too.
C10_Chronological ==
  (Done /\ NumFiles > 0 /\ WellFormedFiles /\ DefaultOptions) =>
    /\ result.errors = <<>>
    /\ \A k \in Neighbours : ~Overlapping(k)

\* Two files with cues, the first starting late, the second at 0.
C10_Witness ==
  /\ Done
  /\ NumFiles >= 2
  /\ WellFormedFiles
  /\ DefaultOptions
  /\ Len(result.mergedCues) = 3
  /\ CuesOfFile(0)[1].startMs > 0
  /\ \E k \in Neighbours :
       /\ ~SameFile(k)
       /\ result.mergedCues[k].startMs = result.mergedCues[k - 1].endMs
       /\ CuesOfFile(result.mergedCues[k].sourceFileIndex)[1].startMs = 0

(***************************************************************************)
(* Raw-text path: the timestamp codec, the permissive parser and           *)
(* mergeSrtFiles.                                                          *)
(*                                                                         *)
(* A text is the sequence of its lines, each already trimmed, and a line   *)
(* is a record that keeps what the code can tell about it:                 *)
(*   [kind |-> "index", n]        only digits                              *)
(*   [kind |-> "ts", start, end, sep, arrow]                               *)
(*                                 two well-formed time tokens around an   *)
(*                                 arrow; sep is the fraction separator    *)
(*                                 ("," or "."), arrow the spacing of the  *)
(*                                 arrow ("one", "wide")                   *)
(*   [kind |-> "badts", s]        holds an arrow or a H:MM:SS pattern but  *)
(*                                 is no pair of well-formed tokens        *)
(*   [kind |-> "text", s]         any other non-empty line                 *)
(*   [kind |-> "blank"]           the empty line                           *)
(* A time token is the record of its four fields [h, m, s, ms].           *)
(***************************************************************************)

\* ---- timestamp codec (timestamp-arith) ------------------------------------
MsPerSecond == 1000
MsPerMinute == 60 * MsPerSecond
MsPerHour == 60 * MsPerMinute

\* formatTimeCode: milliseconds (>= 0) to the token HH:MM:SS,mmm.
formatMsToTimestamp(x) ==
  [h |-> x \div MsPerHour,
   m |-> (x % MsPerHour) \div MsPerMinute,
   s |-> (x % MsPerMinute) \div MsPerSecond,
   ms |-> x % MsPerSecond]

\* parseTimeCode: a well-formed token to milliseconds.
parseTimestampToMs(tok) ==
  tok.h * MsPerHour + tok.m * MsPerMinute + tok.s * MsPerSecond + tok.ms

BlankLine == [kind |-> "blank"]
\* The null that shiftTimestampLine returns.
NoLine == [kind |-> "null"]

CanonicalLine(startMs, endMs) ==
  [kind |-> "ts", start |-> formatMsToTimestamp(startMs), end |-> formatMsToTimestamp(endMs),
   sep |-> ",", arrow |-> "one"]

\* shiftTimecodeLine: parse both sides of the arrow, add the offset, format
\* and rejoin in canonical form; null when a side does not parse.
shiftTimestampLine(raw, offsetMs) ==
  IF raw.kind # "ts" THEN NoLine
  ELSE CanonicalLine(parseTimestampToMs(raw.start) + offsetMs,
                     parseTimestampToMs(raw.end) + offsetMs)

\* The span of a synthesized cue.
FallbackSpanMs == 1000

\* makeFallbackTimestamp: start = max(previousEndMs, cumulativeOffsetMs) + gapMs.
makeFallbackTimestamp(previousEndMs, cumulativeOffsetMs, gapMs) ==
  LET base == IF previousEndMs > cumulativeOffsetMs THEN previousEndMs ELSE cumulativeOffsetMs
  IN CanonicalLine(base + gapMs, base + gapMs + FallbackSpanMs)

\* line.split('-->')[1]?.trim() followed by parseTimestampToMs, for a line in
\* canonical form.
EndMsOf(line) == parseTimestampToMs(line.end)
StartMsOf(line) == parseTimestampToMs(line.start)

\* s.replace(/\s+/g, ' ').trim(): runs of blanks around the arrow collapse to one.
CollapseSpaces(line) ==
  IF line.kind = "ts" /\ line.arrow = "wide" THEN [line EXCEPT !.arrow = "one"] ELSE line

\* ---- permissive parser ----------------------------------------------------
IsIndexLine(line) == line.kind = "index"
LooksLikeTimestamp(line) == line.kind \in {"ts", "badts"}

\* tsRaw is '' until a timecode line is stored.
NoBlock == [origIndex |-> Null, tsRaw |-> BlankLine, texts |-> <<>>]

ParserStart ==
  [blocks |-> <<>>, hasBlock |-> FALSE, currentBlock |-> NoBlock, textLines |-> <<>>,
   expectingIndex |-> TRUE, expectingTimestamp |-> FALSE, isReadingText |-> FALSE]

\* ParseLine with a line of digits met while reading text kept as text.
ParseLineDigitsAsText(st, line) ==
  IF IsIndexLine(line) /\ ~st.isReadingText
  THEN LET closed ==
             IF st.hasBlock /\ (st.currentBlock.tsRaw # BlankLine \/ Len(st.textLines) > 0)
             THEN [st EXCEPT !.blocks = Append(st.blocks,
                                               [st.currentBlock EXCEPT !.texts = st.textLines]),
                             !.textLines = <<>>]
             ELSE st
       IN [closed EXCEPT !.hasBlock = TRUE,
                         !.currentBlock = [origIndex |-> line.n, tsRaw |-> BlankLine, texts |-> <<>>],
                         !.expectingIndex = FALSE,
                         !.expectingTimestamp = TRUE,
                         !.isReadingText = FALSE]
  ELSE IF st.expectingTimestamp /\ LooksLikeTimestamp(line)
  THEN IF st.hasBlock
       THEN [st EXCEPT !.currentBlock.tsRaw = line,
                       !.expectingTimestamp = FALSE,
                       !.isReadingText = TRUE]
       ELSE st
  ELSE IF st.isReadingText /\ st.hasBlock
  THEN [st EXCEPT !.textLines = Append(st.textLines, line)]
  ELSE IF st.hasBlock /\ ~st.expectingTimestamp
  THEN [st EXCEPT !.textLines = Append(st.textLines, line), !.isReadingText = TRUE]
  ELSE IF ~st.hasBlock /\ ~st.expectingIndex
  THEN [st EXCEPT !.hasBlock = TRUE,
                  !.currentBlock = [origIndex |-> Null, tsRaw |-> BlankLine, texts |-> <<line>>],
                  !.isReadingText = TRUE]
  ELSE st

\* One pass of the loop over the lines.
ParseLine(st, line) ==
  IF IsIndexLine(line)
  THEN LET closed ==
             IF st.hasBlock /\ (st.currentBlock.tsRaw # BlankLine \/ Len(st.textLines) > 0)
             THEN [st EXCEPT !.blocks = Append(st.blocks,
                                               [st.currentBlock EXCEPT !.texts = st.textLines]),
                             !.textLines = <<>>]
             ELSE st
       IN [closed EXCEPT !.hasBlock = TRUE,
                         !.currentBlock = [origIndex |-> line.n, tsRaw |-> BlankLine, texts |-> <<>>],
                         !.expectingIndex = FALSE,
                         !.expectingTimestamp = TRUE,
                         !.isReadingText = FALSE]
  ELSE IF st.expectingTimestamp /\ LooksLikeTimestamp(line)
  THEN IF st.hasBlock
       THEN [st EXCEPT !.currentBlock.tsRaw = line,
                       !.expectingTimestamp = FALSE,
                       !.isReadingText = TRUE]
       ELSE st
  ELSE IF st.isReadingText /\ st.hasBlock
  THEN [st EXCEPT !.textLines = Append(st.textLines, line)]
  ELSE IF st.hasBlock /\ ~st.expectingTimestamp
  THEN [st EXCEPT !.textLines = Append(st.textLines, line), !.isReadingText = TRUE]
  ELSE IF ~st.hasBlock /\ ~st.expectingIndex
  THEN [st EXCEPT !.hasBlock = TRUE,
                  !.currentBlock = [origIndex |-> Null, tsRaw |-> BlankLine, texts |-> <<line>>],
                  !.isReadingText = TRUE]
  ELSE st

RECURSIVE ParseLines(_, _)
ParseLines(st, lines) ==
  IF Len(lines) = 0 THEN st ELSE ParseLines(ParseLine(st, Head(lines)), Tail(lines))

\* permissiveParseSrt(content), content given as its lines.
permissiveParseSrt(lines) ==
  LET st == ParseLines(ParserStart, lines)
  IN IF st.hasBlock
     THEN Append(st.blocks, [st.currentBlock EXCEPT !.texts = st.textLines])
     ELSE st.blocks

\* ---- mergeSrtFiles --------------------------------------------------------
\* The gap handed to makeFallbackTimestamp.
FallbackGapMs == 200

NoTextLine == [kind |-> "text", s |-> "[No text]"]

\* The accumulators of mergeSrtFiles before the first file.  fileOffsets
\* records the value of cumulativeMs each file is processed with; fileIndex
\* and action in a merged block record the file it came from and the action
\* chosen for it.
MergeStart ==
  [cumulativeMs |-> 0, globalIndex |-> 1, lastMergedEndMs |-> Null,
   totalInputCues |-> 0, parseIssuesCount |-> 0, currentFileLastEndMs |-> 0,
   diagnostics |-> <<>>, mergedBlocks |-> <<>>, fileOffsets |-> <<>>]

\* FinalTimestamp with the fallback anchored at the file's offset alone.
FinalTimestampFromOffsetOnly(acc, b) ==
  LET shiftedLine == shiftTimestampLine(b.tsRaw, acc.cumulativeMs)
  IN IF shiftedLine # NoLine
     THEN [finalTs |-> shiftedLine,
           action |-> IF CollapseSpaces(shiftedLine) # CollapseSpaces(b.tsRaw)
                      THEN "normalized" ELSE "normal",
           localEndMs |-> EndMsOf(shiftTimestampLine(b.tsRaw, 0))]
     ELSE LET fallback == makeFallbackTimestamp(0, acc.cumulativeMs, FallbackGapMs)
          IN [finalTs |-> fallback,
              action |-> "fallback",
              localEndMs |-> EndMsOf(fallback) - acc.cumulativeMs]

\* FinalTimestamp with the local end of a block read off its shifted line.
FinalTimestampShiftedLocalEnd(acc, b) ==
  LET shiftedLine == shiftTimestampLine(b.tsRaw, acc.cumulativeMs)
  IN IF shiftedLine # NoLine
     THEN [finalTs |-> shiftedLine,
           action |-> IF CollapseSpaces(shiftedLine) # CollapseSpaces(b.tsRaw)
                      THEN "normalized" ELSE "normal",
           localEndMs |-> EndMsOf(shiftedLine)]
     ELSE LET prevEnd == IF acc.lastMergedEndMs # Null THEN acc.lastMergedEndMs ELSE 0
              fallback == makeFallbackTimestamp(prevEnd, acc.cumulativeMs, FallbackGapMs)
          IN [finalTs |-> fallback,
              action |-> "fallback",
              localEndMs |-> EndMsOf(fallback) - acc.cumulativeMs]

\* What the body of the block loop decides for block b: the final timecode
\* line, the action and the end of the block in the file's own timeline.
FinalTimestamp(acc, b) ==
  LET shiftedLine == shiftTimestampLine(b.tsRaw, acc.cumulativeMs)
  IN IF shiftedLine # NoLine
     THEN [finalTs |-> shiftedLine,
           action |-> IF CollapseSpaces(shiftedLine) # CollapseSpaces(b.tsRaw)
                      THEN "normalized" ELSE "normal",
           localEndMs |-> EndMsOf(shiftTimestampLine(b.tsRaw, 0))]
     ELSE LET prevEnd == IF acc.lastMergedEndMs # Null THEN acc.lastMergedEndMs ELSE 0
              fallback == makeFallbackTimestamp(prevEnd, acc.cumulativeMs, FallbackGapMs)
          IN [finalTs |-> fallback,
              action |-> "fallback",
              localEndMs |-> EndMsOf(fallback) - acc.cumulativeMs]

\* ProcessBlock with the parse-issue counter raised for every diagnosed block.
ProcessBlockCountsDiagnostics(acc, name, fileIndex, b) ==
  LET d == FinalTimestamp(acc, b)
  IN [acc EXCEPT
        !.parseIssuesCount = IF d.action # "normal" THEN @ + 1 ELSE @,
        !.currentFileLastEndMs = IF d.localEndMs > @ THEN d.localEndMs ELSE @,
        !.lastMergedEndMs = EndMsOf(d.finalTs),
        !.diagnostics =
           IF d.action # "normal"
           THEN Append(@, [src_file |-> name,
                           original_index |-> b.origIndex,
                           original_timestamp_line |-> b.tsRaw,
                           final_index |-> acc.globalIndex,
                           final_timestamp |-> d.finalTs,
                           action |-> d.action])
           ELSE @,
        !.mergedBlocks =
           Append(@, [index |-> acc.globalIndex,
                      timestamp |-> d.finalTs,
                      texts |-> IF Len(b.texts) > 0 THEN b.texts ELSE <<NoTextLine>>,
                      fileIndex |-> fileIndex,
                      action |-> d.action]),
        !.globalIndex = @ + 1]

\* ProcessBlock with the original index kept where the block has one.
ProcessBlockKeepsIndex(acc, name, fileIndex, b) ==
  LET d == FinalTimestamp(acc, b)
      kept == IF b.origIndex # Null THEN b.origIndex ELSE acc.globalIndex
  IN [acc EXCEPT
        !.parseIssuesCount = IF d.action = "fallback" THEN @ + 1 ELSE @,
        !.currentFileLastEndMs = IF d.localEndMs > @ THEN d.localEndMs ELSE @,
        !.lastMergedEndMs = EndMsOf(d.finalTs),
        !.diagnostics =
           IF d.action # "normal"
           THEN Append(@, [src_file |-> name,
                           original_index |-> b.origIndex,
                           original_timestamp_line |-> b.tsRaw,
                           final_index |-> kept,
                           final_timestamp |-> d.finalTs,
                           action |-> d.action])
           ELSE @,
        !.mergedBlocks =
           Append(@, [index |-> kept,
                      timestamp |-> d.finalTs,
                      texts |-> IF Len(b.texts) > 0 THEN b.texts ELSE <<NoTextLine>>,
                      fileIndex |-> fileIndex,
                      action |-> d.action]),
        !.globalIndex = @ + 1]

\* One pass of the block loop.
ProcessBlock(acc, name, fileIndex, b) ==
  LET d == FinalTimestamp(acc, b)
  IN [acc EXCEPT
        !.parseIssuesCount = IF d.action = "fallback" THEN @ + 1 ELSE @,
        !.currentFileLastEndMs = IF d.localEndMs > @ THEN d.localEndMs ELSE @,
        !.lastMergedEndMs = EndMsOf(d.finalTs),
        !.diagnostics =
           IF d.action # "normal"
           THEN Append(@, [src_file |-> name,
                           original_index |-> b.origIndex,
                           original_timestamp_line |-> b.tsRaw,
                           final_index |-> acc.globalIndex,
                           final_timestamp |-> d.finalTs,
                           action |-> d.action])
           ELSE @,
        !.mergedBlocks =
           Append(@, [index |-> acc.globalIndex,
                      timestamp |-> d.finalTs,
                      texts |-> IF Len(b.texts) > 0 THEN b.texts ELSE <<NoTextLine>>,
                      fileIndex |-> fileIndex,
                      action |-> d.action]),
        !.globalIndex = @ + 1]

\* ProcessBlocks leaving the file at the first block that needs a fallback.
RECURSIVE ProcessBlocksStopAtFallback(_, _, _, _)
ProcessBlocksStopAtFallback(acc, name, fileIndex, blocks) ==
  IF Len(blocks) = 0 THEN acc
  ELSE \* the rest of the file is skipped once a parse issue has been counted
       IF ProcessBlock(acc, name, fileIndex, Head(blocks)).parseIssuesCount > acc.parseIssuesCount
       THEN ProcessBlock(acc, name, fileIndex, Head(blocks))
       ELSE ProcessBlocksStopAtFallback(ProcessBlock(acc, name, fileIndex, Head(blocks)),
                                        name, fileIndex, Tail(blocks))

RECURSIVE ProcessBlocks(_, _, _, _)
ProcessBlocks(acc, name, fileIndex, blocks) ==
  IF Len(blocks) = 0 THEN acc
  ELSE ProcessBlocks(ProcessBlock(acc, name, fileIndex, Head(blocks)), name, fileIndex,
                     Tail(blocks))

\* ProcessFile with the next offset set to the merged end of the file's last
\* block.
ProcessFileAdvanceToLastEnd(acc, file, fileIndex) ==
  LET blocks == permissiveParseSrt(file.content)
      begun == [acc EXCEPT !.totalInputCues = @ + Len(blocks),
                           !.currentFileLastEndMs = 0,
                           !.fileOffsets = Append(@, acc.cumulativeMs)]
      ended == ProcessBlocks(begun, file.name, fileIndex, blocks)
  IN [ended EXCEPT !.cumulativeMs = IF Len(blocks) > 0 THEN ended.lastMergedEndMs ELSE @]

\* One pass of the file loop.
ProcessFile(acc, file, fileIndex) ==
  LET blocks == permissiveParseSrt(file.content)
      begun == [acc EXCEPT !.totalInputCues = @ + Len(blocks),
                           !.currentFileLastEndMs = 0,
                           !.fileOffsets = Append(@, acc.cumulativeMs)]
      ended == ProcessBlocks(begun, file.name, fileIndex, blocks)
  IN [ended EXCEPT !.cumulativeMs = @ + ended.currentFileLastEndMs]

RECURSIVE ProcessFiles(_, _, _)
ProcessFiles(acc, fileList, fileIndex) ==
  IF fileIndex >= Len(fileList) THEN acc
  ELSE ProcessFiles(ProcessFile(acc, fileList[fileIndex + 1], fileIndex), fileList, fileIndex + 1)

\* `${block.index}\n${block.timestamp}\n${block.texts.join('\n')}\n`, as lines;
\* the blank line at the end is the one the trailing \n opens.
BlockLines(block) ==
  <<[kind |-> "index", n |-> block.index], block.timestamp>> \o block.texts \o <<BlankLine>>

\* mergedBlocks.map(...).join('\n'), as the lines of the document.
RECURSIVE SerializeBlocks(_)
SerializeBlocks(blocks) ==
  IF Len(blocks) = 0 THEN <<BlankLine>>
  ELSE IF Len(blocks) = 1 THEN BlockLines(blocks[1])
  ELSE BlockLines(Head(blocks)) \o SerializeBlocks(Tail(blocks))

mergeSrtFiles(fileList) ==
  LET acc == ProcessFiles(MergeStart, fileList, 0)
  IN [mergedSrt |-> SerializeBlocks(acc.mergedBlocks),
      mergedBlocks |-> acc.mergedBlocks,
      fileOffsets |-> acc.fileOffsets,
      diagnostics |-> acc.diagnostics,
      stats |-> [totalInputCues |-> acc.totalInputCues,
                 totalOutputCues |-> Len(acc.mergedBlocks),
                 parseIssuesCount |-> acc.parseIssuesCount,
                 filesProcessed |-> Len(fileList)]]

\* ---- the texts tried ------------------------------------------------------
MaxDocs == 3
MaxBlocks == 3

\* Time pairs (start, end) of the timecode lines written into the texts.
RawPairs == {<<0, MsPerSecond>>, <<0, 3 * MsPerSecond>>}

RawLine(pair, sep, arrow) ==
  [kind |-> "ts", start |-> formatMsToTimestamp(pair[1]), end |-> formatMsToTimestamp(pair[2]),
   sep |-> sep, arrow |-> arrow]

BadTsLine == [kind |-> "badts", s |-> "00:00:0x --> ?"]
TextLine == [kind |-> "text", s |-> "A"]

\* What a written block has as its timecode line: a canonical line, a line
\* with a wide arrow, a line with period separators, a line that looks like a
\* timecode but does not parse, or no line at all.
TsChoices ==
  {<<RawLine(p, ",", "one")>> : p \in RawPairs}
    \cup {<<RawLine(<<0, MsPerSecond>>, ",", "wide")>>,
          <<RawLine(<<0, MsPerSecond>>, ".", "one")>>,
          <<BadTsLine>>,
          <<>>}

\* What follows the timecode line: a text line and a blank separator, a blank
\* separator alone, or nothing.
BodyChoices == {<<TextLine, BlankLine>>, <<BlankLine>>, <<>>}

\* The index lines of a file: 1, 2, 3, ... or out of order with a duplicate.
IndexSchemes == {<<1, 2, 3, 4>>, <<2, 1, 1, 3>>}

BlockChoices == {ts \o body : ts \in TsChoices, body \in BodyChoices}

DocShapes ==
  UNION {{ns \in [1 .. n -> 0 .. MaxBlocks] : Sum(ns) <= MaxBlocks} : n \in 0 .. MaxDocs}

RECURSIVE WriteBlocks(_, _, _)
WriteBlocks(scheme, bodies, k) ==
  IF k > Len(bodies) THEN <<>>
  ELSE <<[kind |-> "index", n |-> scheme[k]]>> \o bodies[k] \o WriteBlocks(scheme, bodies, k + 1)

\* ''.split(/\r?\n/) is [''].
WriteDoc(scheme, bodies) ==
  IF Len(bodies) = 0 THEN <<BlankLine>> ELSE WriteBlocks(scheme, bodies, 1)

DocName(f) == <<"a.srt", "b.srt", "c.srt", "d.srt", "e.srt", "f.srt">>[f]

MakeDocs(ns, scheme, bodies) ==
  [f \in 1 .. Len(ns) |->
     [name |-> DocName(f),
      content |-> WriteDoc(scheme, SubSeq(bodies, Sum(SubSeq(ns, 1, f - 1)) + 1,
                                          Sum(SubSeq(ns, 1, f))))]]

RawInit ==
  /\ \E ns \in DocShapes : \E scheme \in IndexSchemes :
       \E bodies \in [1 .. Sum(ns) -> BlockChoices] :
         srtFiles = MakeDocs(ns, scheme, bodies)
  /\ merged = <<>>
  /\ pc = "idle"
  /\ parsedFiles = <<>>
  /\ options = NoOptions
  /\ result = NoResult
  /\ AppStart
  /\ ParserIdle

\* A call mergeSrtFiles(srtFiles) by the caller.
MergeDocuments ==
  /\ pc = "idle"
  /\ merged' = mergeSrtFiles(srtFiles)
  /\ pc' = "done"
  /\ UNCHANGED <<parsedFiles, options, result, srtFiles, appVars, parserVars>>

RawNext == MergeDocuments

SpecRaw == RawInit /\ [][RawNext]_vars

\* ---- permissiveParseSrt line by line ---------------------------------------
MaxLines == 5

\* The lines a text is made of: two index lines, a timecode line, a line that
\* only looks like one, a text line and the empty line.
LineChoices ==
  {[kind |-> "index", n |-> 1], [kind |-> "index", n |-> 2],
   RawLine(<<0, MsPerSecond>>, ",", "one"), BadTsLine, TextLine, BlankLine}

\* content.split(/\r?\n/) has at least one line.
ParseInit ==
  /\ content \in UNION {[1 .. n -> LineChoices] : n \in 1 .. MaxLines}
  /\ lineNo = 0
  /\ parser = ParserStart
  /\ returned = <<>>
  /\ pc = "idle"
  /\ parsedFiles = <<>>
  /\ options = NoOptions
  /\ result = NoResult
  /\ srtFiles = <<>>
  /\ merged = <<>>
  /\ AppStart

\* One pass of the loop over the lines.
ParseStep ==
  /\ pc = "idle"
  /\ lineNo < Len(content)
  /\ parser' = ParseLine(parser, content[lineNo + 1])
  /\ lineNo' = lineNo + 1
  /\ UNCHANGED <<content, returned, pc, parsedFiles, options, result, srtFiles, merged, appVars>>

\* The end of the loop: the open block is pushed and blocks returned.
ParseReturn ==
  /\ pc = "idle"
  /\ lineNo = Len(content)
  /\ returned' = IF parser.hasBlock
                 THEN Append(parser.blocks, [parser.currentBlock EXCEPT !.texts = parser.textLines])
                 ELSE parser.blocks
  /\ pc' = "done"
  /\ UNCHANGED <<content, lineNo, parser, parsedFiles, options, result, srtFiles, merged, appVars>>

ParseNext == ParseStep \/ ParseReturn

SpecParse == ParseInit /\ [][ParseNext]_vars

(***************************************************************************)
(* The App: the file list, the TimelineAlignmentCard and handleMerge.      *)
(***************************************************************************)
MaxIds == 3
MaxPending == 2
MaxSelect == 2
\* UploadArea is disabled from this many files on.
UploadLimit == 10

\* The contents an upload reads: one cue of one second, one cue of three
\* seconds, or nothing (which is also what a failed read stores).
EmptyDoc == <<BlankLine>>
DocOf(pair) ==
  <<[kind |-> "index", n |-> 1], RawLine(pair, ",", "one"), TextLine, BlankLine>>
AppDocs == {DocOf(pair) : pair \in RawPairs} \cup {EmptyDoc}
Selections == UNION {[1 .. n -> AppDocs] : n \in 1 .. MaxSelect}

\* What the card's custom offset field parses to: not a timestamp, or 5 s.
CustomOffsets == {Null, 5 * MsPerSecond}

\* files.find(f => f.isPrimary) || files[0] || null, as a position (0: null).
primaryFile(fs) ==
  IF \E i \in 1 .. Len(fs) : fs[i].isPrimary
  THEN CHOOSE i \in 1 .. Len(fs) : fs[i].isPrimary /\ \A j \in 1 .. i - 1 : ~fs[j].isPrimary
  ELSE IF Len(fs) > 0 THEN 1 ELSE 0

RECURSIVE LastEnd(_, _)
LastEnd(blocks, lastEndMs) ==
  IF Len(blocks) = 0 THEN lastEndMs
  ELSE LET shifted == shiftTimestampLine(Head(blocks).tsRaw, 0)
       IN LastEnd(Tail(blocks),
                  IF shifted # NoLine /\ EndMsOf(shifted) > lastEndMs
                  THEN EndMsOf(shifted) ELSE lastEndMs)

\* primaryEnd, read back by the card as primaryEndMs.
primaryEndMs(fs) ==
  IF primaryFile(fs) = 0 THEN 0
  ELSE parseTimestampToMs(formatMsToTimestamp(
         LastEnd(permissiveParseSrt(fs[primaryFile(fs)].fileContent), 0)))

IsSecondary(f) == ~f.isPrimary
secondaryFiles(fs) == SelectSeq(fs, IsSecondary)

\* computeOffsets of the card rendered with the file list fs.
computeOffsets(fs, m, custom) ==
  LET secondary == secondaryFiles(fs)
  IN [k \in 1 .. Len(secondary) |->
        [id |-> secondary[k].id,
         offsetMs |-> IF m = "auto" THEN primaryEndMs(fs)
                      ELSE IF m = "none" THEN 0
                      ELSE IF custom # Null THEN custom ELSE 0]]

CardShown(fs) == Len(fs) >= 2

\* The render that follows a change of the file list from files to fs, with
\* offsets what the handler stored: a card that appears starts in mode auto
\* and its effect hands computeOffsets() to the App; a card that stays runs no
\* effect; a card that goes loses its state.
RenderFiles(fs, offsets) ==
  /\ files' = fs
  /\ IF CardShown(fs) /\ CardShown(files)
     THEN /\ UNCHANGED <<mode, customOffset>>
          /\ computedOffsets' = offsets
     ELSE /\ mode' = "auto"
          /\ customOffset' = DefaultCustomOffset
          /\ computedOffsets' = IF CardShown(fs)
                                THEN computeOffsets(fs, "auto", DefaultCustomOffset)
                                ELSE offsets

coreVars == <<parsedFiles, options, pc, result, srtFiles, merged, parserVars>>

\* handleFilesSelected up to its first await: the call keeps the file list it
\* was created with, from which it decides whether its first file is primary.
StartUpload ==
  /\ Len(files) < UploadLimit
  /\ Len(uploads) < MaxPending
  /\ \E selectedFiles \in Selections :
       /\ nextId + Len(selectedFiles) - 1 <= MaxIds
       /\ uploads' = Append(uploads,
                            [firstIsPrimary |-> Len(files) = 0,
                             firstId |-> nextId,
                             contents |-> selectedFiles])
       /\ nextId' = nextId + Len(selectedFiles)
  /\ UNCHANGED <<files, computedOffsets, mergeResult, mode, customOffset, coreVars>>

newFiles(upload) ==
  [k \in 1 .. Len(upload.contents) |->
     [id |-> upload.firstId + k - 1,
      name |-> DocName(upload.firstId + k - 1),
      isPrimary |-> upload.firstIsPrimary /\ k = 1,
      fileContent |-> upload.contents[k]]]

\* handleFilesSelected after its last await: setFiles(prev => [...prev, ...newFiles]).
FinishUpload ==
  /\ \E u \in 1 .. Len(uploads) :
       /\ RenderFiles(files \o newFiles(uploads[u]), computedOffsets)
       /\ uploads' = SubSeq(uploads, 1, u - 1) \o SubSeq(uploads, u + 1, Len(uploads))
  /\ UNCHANGED <<mergeResult, nextId, coreVars>>

handleSetPrimary ==
  /\ \E i \in 1 .. Len(files) :
       /\ ~files[i].isPrimary
       /\ RenderFiles([j \in 1 .. Len(files) |-> [files[j] EXCEPT !.isPrimary = (j = i)]], <<>>)
  /\ mergeResult' = NoMergeResult
  /\ UNCHANGED <<uploads, nextId, coreVars>>

handleRemove ==
  /\ \E i \in 1 .. Len(files) :
       LET updated == SubSeq(files, 1, i - 1) \o SubSeq(files, i + 1, Len(files))
       IN RenderFiles(IF files[i].isPrimary /\ Len(updated) > 0
                      THEN [j \in 1 .. Len(updated) |-> [updated[j] EXCEPT !.isPrimary = (j = 1)]]
                      ELSE updated,
                      <<>>)
  /\ mergeResult' = NoMergeResult
  /\ UNCHANGED <<uploads, nextId, coreVars>>

\* A radio button of the card: setMode, then the effect on [mode, customOffset].
SetMode ==
  /\ CardShown(files)
  /\ \E m \in {"auto", "none", "custom"} :
       /\ m # mode
       /\ mode' = m
       /\ computedOffsets' = computeOffsets(files, m, customOffset)
  /\ UNCHANGED <<files, mergeResult, customOffset, uploads, nextId, coreVars>>

\* handleCustomOffsetChange, then the same effect.
SetCustomOffset ==
  /\ CardShown(files)
  /\ mode = "custom"
  /\ \E value \in CustomOffsets :
       /\ value # customOffset
       /\ customOffset' = value
       /\ computedOffsets' = computeOffsets(files, mode, value)
  /\ UNCHANGED <<files, mergeResult, mode, uploads, nextId, coreVars>>

\* handleApply: onChange(computeOffsets()).
handleApply ==
  /\ CardShown(files)
  /\ computedOffsets' = computeOffsets(files, mode, customOffset)
  /\ UNCHANGED <<files, mergeResult, mode, customOffset, uploads, nextId, coreVars>>

\* handleReset: the effect runs only if mode or customOffset changed.
handleReset ==
  /\ CardShown(files)
  /\ mode' = "auto"
  /\ customOffset' = DefaultCustomOffset
  /\ computedOffsets' = IF mode # "auto" \/ customOffset # DefaultCustomOffset
                        THEN computeOffsets(files, "auto", DefaultCustomOffset)
                        ELSE computedOffsets
  /\ UNCHANGED <<files, mergeResult, uploads, nextId, coreVars>>

\* The blocks of one file in the offsets branch of handleMerge: a block whose
\* line does not shift is left out.
RECURSIVE ShiftedBlocks(_, _, _, _)
ShiftedBlocks(blocks, offsetMs, fileIndex, globalIndex) ==
  IF Len(blocks) = 0 THEN <<>>
  ELSE LET b == Head(blocks)
           shifted == shiftTimestampLine(b.tsRaw, offsetMs)
       IN IF shifted # NoLine
          THEN <<[index |-> globalIndex,
                  timestamp |-> shifted,
                  texts |-> IF Len(b.texts) > 0 THEN b.texts ELSE <<NoTextLine>>,
                  fileIndex |-> fileIndex,
                  action |-> "normal"]>>
                 \o ShiftedBlocks(Tail(blocks), offsetMs, fileIndex, globalIndex + 1)
          ELSE ShiftedBlocks(Tail(blocks), offsetMs, fileIndex, globalIndex)

\* computedOffsets.find(o => o.id === file.id)?.offsetMs ?? 0
OffsetFor(offsets, id) ==
  IF \E k \in 1 .. Len(offsets) : offsets[k].id = id
  THEN offsets[CHOOSE k \in 1 .. Len(offsets) :
                 offsets[k].id = id /\ \A j \in 1 .. k - 1 : offsets[j].id # id].offsetMs
  ELSE 0

\* The loop over secondaryFilesList, from position i of the file list on.
RECURSIVE SecondaryBlocks(_, _, _, _)
SecondaryBlocks(fs, offsets, i, allBlocks) ==
  IF i > Len(fs) THEN allBlocks
  ELSE IF fs[i].isPrimary THEN SecondaryBlocks(fs, offsets, i + 1, allBlocks)
  ELSE SecondaryBlocks(fs, offsets, i + 1,
         allBlocks \o ShiftedBlocks(permissiveParseSrt(fs[i].fileContent),
                                    OffsetFor(offsets, fs[i].id), i - 1, Len(allBlocks) + 1))

IsNotBlank(line) == line # BlankLine

\* `${block.index}\n${block.timestamp}\n${cleanTexts.join('\n')}` joined by
\* '\n\n' and followed by '\n', as lines.
RECURSIVE CleanLines(_)
CleanLines(blocks) ==
  IF Len(blocks) = 0 THEN <<>>
  ELSE <<[kind |-> "index", n |-> Head(blocks).index], Head(blocks).timestamp>>
         \o (IF Len(SelectSeq(Head(blocks).texts, IsNotBlank)) = 0 THEN <<BlankLine>>
             ELSE SelectSeq(Head(blocks).texts, IsNotBlank))
         \o <<BlankLine>> \o CleanLines(Tail(blocks))

RECURSIVE TotalParsed(_)
TotalParsed(fs) ==
  IF Len(fs) = 0 THEN 0
  ELSE Len(permissiveParseSrt(Head(fs).fileContent)) + TotalParsed(Tail(fs))

\* The offsets branch of handleMerge.
mergeWithOffsets(fs, offsets) ==
  LET p == primaryFile(fs)
      primaryBlocks == ShiftedBlocks(permissiveParseSrt(fs[p].fileContent), 0, p - 1, 1)
      allBlocks == SecondaryBlocks(fs, offsets, 1, primaryBlocks)
  IN [mergedSrt |-> IF Len(allBlocks) = 0 THEN <<BlankLine, BlankLine>> ELSE CleanLines(allBlocks),
      mergedBlocks |-> allBlocks,
      diagnostics |-> <<>>,
      stats |-> [totalInputCues |-> TotalParsed(fs),
                 totalOutputCues |-> Len(allBlocks),
                 parseIssuesCount |-> 0,
                 filesProcessed |-> Len(fs)]]

filesToMerge(fs) == [i \in 1 .. Len(fs) |-> [name |-> fs[i].name, content |-> fs[i].fileContent]]

\* What handleMerge stores for the file list fs and the offsets it holds.
mergeOf(fs, offsets) ==
  IF Len(offsets) > 0 /\ Len(fs) > 1 /\ primaryFile(fs) # 0
  THEN mergeWithOffsets(fs, offsets)
  ELSE mergeSrtFiles(filesToMerge(fs))

\* The Merge button; the handler has no await, so it runs as one step.
handleMerge ==
  /\ Len(files) > 0
  /\ mergeResult' = mergeOf(files, computedOffsets)
  /\ UNCHANGED <<files, computedOffsets, mode, customOffset, uploads, nextId, coreVars>>

AppInit ==
  /\ AppStart
  /\ parsedFiles = <<>>
  /\ options = NoOptions
  /\ pc = "idle"
  /\ result = NoResult
  /\ srtFiles = <<>>
  /\ merged = <<>>
  /\ ParserIdle

AppNext ==
  \/ StartUpload
  \/ FinishUpload
  \/ handleSetPrimary
  \/ handleRemove
  \/ SetMode
  \/ SetCustomOffset
  \/ handleApply
  \/ handleReset
  \/ handleMerge

SpecApp == AppInit /\ [][AppNext]_vars

(***************************************************************************)
(* Properties of the raw-text path.                                        *)
(***************************************************************************)
\* The blocks the parser returns, file after file, each with the index of its
\* file; mergeSrtFiles emits one block for each, in this order.
RECURSIVE ParsedFrom(_)
ParsedFrom(f) ==
  IF f > Len(srtFiles) THEN <<>>
  ELSE LET blocks == permissiveParseSrt(srtFiles[f].content)
       IN [k \in 1 .. Len(blocks) |-> [fileIndex |-> f - 1, block |-> blocks[k]]]
            \o ParsedFrom(f + 1)

ParsedBlocks == ParsedFrom(1)

Emitted == 1 .. Len(merged.mergedBlocks)
Diagnosed == 1 .. Len(merged.diagnostics)
DiagnosticsOf(k) == {i \in Diagnosed : merged.diagnostics[i].final_index = k}

\* HH:MM:SS,mmm --> HH:MM:SS,mmm
IsCanonicalForm(line) ==
  /\ line.kind = "ts"
  /\ line.sep = ","
  /\ line.arrow = "one"
Parseable(line) == line.kind = "ts"

\* C11: a block whose raw timecode line is in canonical form gets action
\* 'normal' and no diagnostic, whatever offset its file is shifted by, and
\* 'normalized' is assigned only to a block whose raw line is not in canonical
\* form.
C11_CanonicalIsNormal ==
  Done =>
    /\ \A k \in Emitted :
         IsCanonicalForm(ParsedBlocks[k].block.tsRaw) =>
           /\ merged.mergedBlocks[k].action = "normal"
           /\ DiagnosticsOf(k) = {}
    /\ \A i \in Diagnosed :
         merged.diagnostics[i].action = "normalized" =>
           ~IsCanonicalForm(merged.diagnostics[i].original_timestamp_line)

FallbackDiagnostics == {i \in Diagnosed : merged.diagnostics[i].action = "fallback"}
Unparseable == {k \in 1 .. Len(ParsedBlocks) : shiftTimestampLine(ParsedBlocks[k].block.tsRaw, 0) = NoLine}

\* C12: stats.parseIssuesCount is the number of 'fallback' diagnostics, which
\* is the number of parsed blocks whose timecode line does not parse, and the
\* final timecode line of every such block parses.
C12_ParseIssuesCount ==
  Done =>
    /\ merged.stats.parseIssuesCount = Cardinality(FallbackDiagnostics)
    /\ Cardinality(FallbackDiagnostics) = Cardinality(Unparseable)
    /\ \A i \in FallbackDiagnostics :
         LET d == merged.diagnostics[i]
         IN /\ d.final_index \in Unparseable
            /\ shiftTimestampLine(d.final_timestamp, 0) # NoLine
            /\ merged.mergedBlocks[d.final_index].timestamp = d.final_timestamp

\* One file of three blocks, exactly one of them with a line that does not
\* parse, merged with one parse issue counted.
C12_Witness ==
  /\ Done
  /\ Len(srtFiles) = 1
  /\ Len(ParsedBlocks) = 3
  /\ Cardinality(Unparseable) = 1
  /\ Cardinality(FallbackDiagnostics) = 1
  /\ merged.stats.parseIssuesCount = 1

FallbackBlocks == {k \in Emitted : merged.mergedBlocks[k].action = "fallback"}
\* The merged-timeline end of the block emitted before block k, 0 if none.
PreviousGlobalEnd(k) == IF k = 1 THEN 0 ELSE EndMsOf(merged.mergedBlocks[k - 1].timestamp)
\* The offset of the file block k comes from.
OffsetOfBlock(k) == merged.fileOffsets[merged.mergedBlocks[k].fileIndex + 1]

\* C13: every fallback timecode line parses and starts strictly after both the
\* end of the block emitted before it (0 if none) and the offset of its file.
C13_FallbackStartsAfterAnchor ==
  Done =>
    \A k \in FallbackBlocks :
      LET line == merged.mergedBlocks[k].timestamp
      IN /\ shiftTimestampLine(line, 0) # NoLine
         /\ StartMsOf(line) > PreviousGlobalEnd(k)
         /\ StartMsOf(line) > OffsetOfBlock(k)

\* A fallback block in a file whose offset is past the end of the block
\* emitted before it.
C13_Witness ==
  /\ Done
  /\ \E k \in FallbackBlocks :
       /\ k > 1
       /\ 0 < PreviousGlobalEnd(k)
       /\ PreviousGlobalEnd(k) < OffsetOfBlock(k)

\* C14: a fallback block never overlaps or precedes prior merged content: its
\* start is at or after the final end of every block emitted before it.
C14_FallbackAfterAllPrior ==
  Done =>
    \A k \in FallbackBlocks : \A j \in 1 .. k - 1 :
      StartMsOf(merged.mergedBlocks[k].timestamp) >= EndMsOf(merged.mergedBlocks[j].timestamp)

\* The line of the merged document at which block k begins: each block before
\* it takes its index line, its timecode line, its text lines and a blank line.
RECURSIVE PositionOfBlock(_)
PositionOfBlock(k) ==
  IF k = 1 THEN 1
  ELSE PositionOfBlock(k - 1) + Len(merged.mergedBlocks[k - 1].texts) + 3

\* C15: the k-th emitted block carries index k, whatever the original indices
\* were, the blocks are the parsed blocks in file order then block order, and
\* every diagnostic's final_index is the index of the block it describes.
C15_SequentialIndices ==
  Done =>
    /\ Len(merged.mergedBlocks) = Len(ParsedBlocks)
    /\ \A k \in Emitted :
         /\ merged.mergedBlocks[k].index = k
         /\ merged.mergedBlocks[k].fileIndex = ParsedBlocks[k].fileIndex
         /\ merged.mergedSrt[PositionOfBlock(k)] = [kind |-> "index", n |-> k]
    /\ \A i \in Diagnosed :
         LET d == merged.diagnostics[i]
         IN /\ d.final_index \in Emitted
            /\ d.final_timestamp = merged.mergedBlocks[d.final_index].timestamp
            /\ d.action = merged.mergedBlocks[d.final_index].action
            /\ d.original_index = ParsedBlocks[d.final_index].block.origIndex
            /\ d.original_timestamp_line = ParsedBlocks[d.final_index].block.tsRaw
            /\ d.src_file = srtFiles[ParsedBlocks[d.final_index].fileIndex + 1].name

\* Blocks with duplicated and out-of-order original indices in two files, the
\* last of them diagnosed.
C15_Witness ==
  /\ Done
  /\ Len(srtFiles) >= 2
  /\ Len(ParsedBlocks) = 3
  /\ ParsedBlocks[1].block.origIndex = 2
  /\ ParsedBlocks[2].block.origIndex = 1
  /\ ParsedBlocks[3].block.origIndex = 2
  /\ ParsedBlocks[3].fileIndex > ParsedBlocks[2].fileIndex
  /\ \E i \in Diagnosed : merged.diagnostics[i].final_index = 3

AllEmpty(texts) == \A i \in 1 .. Len(texts) : texts[i] = BlankLine

\* C16: a block whose text lines are all empty strings, a block with no text
\* lines included, is rendered with the single placeholder line, so no block
\* of the merged document has empty content.
C16_PlaceholderForEmptyText ==
  Done =>
    \A k \in Emitted :
      /\ AllEmpty(ParsedBlocks[k].block.texts) =>
           merged.mergedBlocks[k].texts = <<NoTextLine>>
      /\ ~AllEmpty(merged.mergedBlocks[k].texts)

\* What the renderer emits as the text of a parsed block.
RenderedTexts(b) == IF Len(b.texts) > 0 THEN b.texts ELSE <<NoTextLine>>

\* C17: a parse issue aborts and drops nothing: every block the parser returns
\* is emitted once, in order, so totalOutputCues = totalInputCues = number of
\* parsed blocks and filesProcessed = number of input files.
C17_NothingDropped ==
  Done =>
    /\ merged.stats.totalInputCues = Len(ParsedBlocks)
    /\ merged.stats.totalOutputCues = Len(ParsedBlocks)
    /\ merged.stats.filesProcessed = Len(srtFiles)
    /\ Len(merged.mergedBlocks) = Len(ParsedBlocks)
    /\ Len(merged.fileOffsets) = Len(srtFiles)
    /\ \A k \in 1 .. Len(ParsedBlocks) :
         /\ k \in Emitted
         /\ merged.mergedBlocks[k].fileIndex = ParsedBlocks[k].fileIndex
         /\ merged.mergedBlocks[k].texts = RenderedTexts(ParsedBlocks[k].block)
         /\ SubSeq(merged.mergedSrt, PositionOfBlock(k) + 2,
                   PositionOfBlock(k) + 1 + Len(merged.mergedBlocks[k].texts))
              = merged.mergedBlocks[k].texts

\* A fallback block followed by a block of the same file and by a block of a
\* later file.
C17_Witness ==
  /\ Done
  /\ Len(ParsedBlocks) = 3
  /\ 1 \in FallbackBlocks
  /\ ParsedBlocks[2].fileIndex = ParsedBlocks[1].fileIndex
  /\ ParsedBlocks[3].fileIndex > ParsedBlocks[1].fileIndex
  /\ merged.stats.totalOutputCues = 3

\* The blocks the parser returns for the App's files, in upload order, each
\* with the position of its file.
RECURSIVE ParsedOfFiles(_, _)
ParsedOfFiles(fs, i) ==
  IF i > Len(fs) THEN <<>>
  ELSE LET blocks == permissiveParseSrt(fs[i].fileContent)
       IN [k \in 1 .. Len(blocks) |-> [fileIndex |-> i - 1, block |-> blocks[k]]]
            \o ParsedOfFiles(fs, i + 1)

\* The duration of the first n files together: the sum of the latest ends of
\* their timecode lines.
RECURSIVE DurationOfFirst(_, _)
DurationOfFirst(fs, n) ==
  IF n = 0 THEN 0
  ELSE DurationOfFirst(fs, n - 1) + LastEnd(permissiveParseSrt(fs[n].fileContent), 0)

\* res holds the blocks of fs file by file in upload order, each with the times
\* of its line moved by the duration of the files uploaded before its file.
EndToEnd(fs, res) ==
  \A parsed \in {ParsedOfFiles(fs, 1)} :
    /\ Len(res.mergedBlocks) = Len(parsed)
    /\ \A k \in 1 .. Len(parsed) :
         LET raw == parsed[k].block.tsRaw
             out == res.mergedBlocks[k]
         IN /\ out.fileIndex = parsed[k].fileIndex
            /\ StartMsOf(out.timestamp)
                 = parseTimestampToMs(raw.start) + DurationOfFirst(fs, parsed[k].fileIndex)
            /\ EndMsOf(out.timestamp)
                 = parseTimestampToMs(raw.end) + DurationOfFirst(fs, parsed[k].fileIndex)

\* C19: pressing Merge on any reachable file list merges the uploaded files
\* end-to-end in upload order, whichever file is primary and whichever shift
\* mode is active.
C19_MergeEndToEndInUploadOrder == [][handleMerge => EndToEnd(files, mergeResult')]_vars

BlocksIn(parsed, f) == {k \in 1 .. Len(parsed) : parsed[k].fileIndex = f}
BlocksOfFile(f) == BlocksIn(ParsedBlocks, f)

\* The end of block k in its file's own timeline: the end its raw line
\* states, or for a fallback block its synthesized end less the file's offset.
\* parsed is the sequence ParsedBlocks.
LocalEnd(parsed, k) ==
  LET raw == parsed[k].block.tsRaw
  IN IF Parseable(raw) THEN parseTimestampToMs(raw.end)
     ELSE EndMsOf(merged.mergedBlocks[k].timestamp) - OffsetOfBlock(k)

MaxLocalEnd(parsed, f) ==
  IF BlocksIn(parsed, f) = {} THEN 0
  ELSE SetMax({LocalEnd(parsed, k) : k \in BlocksIn(parsed, f)})

RECURSIVE SumOfLocalEnds(_, _)
SumOfLocalEnds(parsed, f) ==
  IF f = 0 THEN 0 ELSE SumOfLocalEnds(parsed, f - 1) + MaxLocalEnd(parsed, f - 1)

\* C20: the offset applied to file k is the sum over the earlier files of each
\* file's maximum local end, a file without blocks adding 0 and the first file
\* having offset 0; every block that parses is emitted with its raw times
\* moved by the offset of its file.
C20_OffsetIsSumOfLocalEnds ==
  Done =>
    \A parsed \in {ParsedBlocks} :
      /\ \A f \in 0 .. Len(srtFiles) - 1 :
           merged.fileOffsets[f + 1] = SumOfLocalEnds(parsed, f)
      /\ \A k \in Emitted :
           LET raw == parsed[k].block.tsRaw
               final == merged.mergedBlocks[k].timestamp
           IN Parseable(raw) =>
                /\ StartMsOf(final)
                     = parseTimestampToMs(raw.start) + SumOfLocalEnds(parsed, parsed[k].fileIndex)
                /\ EndMsOf(final)
                     = parseTimestampToMs(raw.end) + SumOfLocalEnds(parsed, parsed[k].fileIndex)

\* Three files: the second holds a fallback block, the third a block that
\* parses and is moved by the local ends of both files before it.
C20_Witness ==
  /\ Done
  /\ Len(srtFiles) = 3
  /\ merged.fileOffsets[2] > 0
  /\ merged.fileOffsets[3] > merged.fileOffsets[2]
  /\ \E k \in BlocksOfFile(1) : k \in FallbackBlocks
  /\ \E k \in BlocksOfFile(2) : Parseable(ParsedBlocks[k].block.tsRaw)

(***************************************************************************)
(* Properties of the parser followed line by line.                         *)
(***************************************************************************)
ReturnedBlocks == 1 .. Len(returned)
StoredTimecodes == {returned[k].tsRaw : k \in ReturnedBlocks}
KeptTexts == UNION {{returned[k].texts[i] : i \in 1 .. Len(returned[k].texts)} : k \in ReturnedBlocks}

\* C21: the parser never silently loses text: each non-blank line that is not
\* taken as a block index and not stored as a block's timecode line is among
\* the text lines of some returned block.
C21_NoTextLost ==
  Done =>
    \A i \in 1 .. Len(content) :
      (/\ content[i] # BlankLine
       /\ ~IsIndexLine(content[i])
       /\ content[i] \notin StoredTimecodes) => content[i] \in KeptTexts

\* The block the parser holds open, as it is pushed.
OpenBlock(st) == [st.currentBlock EXCEPT !.texts = st.textLines]
HoldsContent(st) ==
  st.hasBlock /\ (st.currentBlock.tsRaw # BlankLine \/ Len(st.textLines) > 0)

TimecodePositionLines(text, n) ==
  {IF i < Len(text) THEN text[i + 1] ELSE BlankLine :
     i \in {j \in 1 .. Len(text) : text[j] = [kind |-> "index", n |-> n]}}

\* C23: the diagnostic of every fallback block names the file the block came
\* from, the line emitted for it, and the source line that stood in the
\* block's timecode position, the line following its index line.
C23_FallbackProvenance ==
  Done =>
    \A i \in FallbackDiagnostics :
      LET d == merged.diagnostics[i]
          file == srtFiles[merged.mergedBlocks[d.final_index].fileIndex + 1]
      IN /\ d.src_file = file.name
         /\ d.final_timestamp = merged.mergedBlocks[d.final_index].timestamp
         /\ d.original_timestamp_line \in TimecodePositionLines(file.content, d.original_index)

\* The files of srtFiles as typed cues: each parsed block becomes a cue with
\* the times its timecode line states.
TypedFiles(blocks) ==
  [f \in 1 .. Len(srtFiles) |->
     [cues |-> LET own == SelectSeq(blocks, LAMBDA pb : pb.fileIndex = f - 1)
               IN [k \in 1 .. Len(own) |->
                     [startMs |-> parseTimestampToMs(own[k].block.tsRaw.start),
                      endMs |-> parseTimestampToMs(own[k].block.tsRaw.end),
                      text |-> CueText(f - 1, k - 1)]]]]

AllParseable(blocks) == \A k \in 1 .. Len(blocks) : Parseable(blocks[k].block.tsRaw)

\* C24: for files in which every block has a parseable timecode line the k-th
\* block of mergeSrtFiles has the start and end of the k-th cue that
\* mergeParsedFilesSequential returns with default options for the same files
\* as typed cues, and both give every file the same cumulative offset.
C24_MirrorsStructuredMerger ==
  Done =>
    \A blocks \in {ParsedBlocks} :
      AllParseable(blocks) =>
        \A typed \in {TypedFiles(blocks)} :
          \A structured \in {mergeParsedFilesSequential(typed, NoOptions)} :
            /\ Len(structured.mergedCues) = Len(merged.mergedBlocks)
            /\ \A k \in Emitted :
                 /\ structured.mergedCues[k].startMs = StartMsOf(merged.mergedBlocks[k].timestamp)
                 /\ structured.mergedCues[k].endMs = EndMsOf(merged.mergedBlocks[k].timestamp)
                 /\ structured.mergedCues[k].sourceFileIndex = merged.mergedBlocks[k].fileIndex
            /\ cumulativeShift(typed, NoOptions) = merged.fileOffsets

\* Three blocks that parse in three files, the first file three seconds long,
\* the second one second, so that the third file's offset sums two files.
C24_Witness ==
  /\ Done
  /\ Len(srtFiles) = 3
  /\ Len(ParsedBlocks) = 3
  /\ AllParseable(ParsedBlocks)
  /\ merged.fileOffsets = <<0, 3 * MsPerSecond, 4 * MsPerSecond>>

\* mergeSrtFiles called on the document it returned, as a single file.
MergedAgain(doc) == mergeSrtFiles(<<[name |-> "merged.srt", content |-> doc]>>)

\* C30: the document that mergeSrtFiles returns, fed back as a single file,
\* comes back unchanged: as many blocks, indexed 1..N, with the same timecode
\* lines and the same text lines, and no diagnostics.
C30_MergedDocumentRoundTrips ==
  Done =>
    \A again \in {MergedAgain(merged.mergedSrt)} :
      /\ Len(again.mergedBlocks) = Len(merged.mergedBlocks)
      /\ \A k \in 1 .. Len(again.mergedBlocks) :
           /\ again.mergedBlocks[k].index = k
           /\ again.mergedBlocks[k].timestamp = merged.mergedBlocks[k].timestamp
           /\ again.mergedBlocks[k].texts = merged.mergedBlocks[k].texts
      /\ again.mergedSrt = merged.mergedSrt
      /\ again.diagnostics = <<>>

\* ---- Further properties of the structured merger ------------------------
\* C25: the cumulative shift is a forward advance: the shift of every file is
\* at least 0 and the shift of file i + 1 is at least the shift of file i.
C25_ShiftIsForwardAdvance ==
  Done =>
    \A shifts \in {cumulativeShift(parsedFiles, options)} :
      /\ \A i \in DOMAIN shifts : shifts[i] >= 0
      /\ \A i \in DOMAIN shifts : i + 1 \in DOMAIN shifts => shifts[i + 1] >= shifts[i]

\* The options with useEffectiveEndMs taken out, and the three settings of it.
WithoutEffectiveEnd(opts) == [f \in DOMAIN opts \ {"useEffectiveEndMs"} |-> opts[f]]

EffectiveEndSettings(opts) ==
  {WithoutEffectiveEnd(opts)}
    \cup {[f \in DOMAIN opts \cup {"useEffectiveEndMs"} |->
             IF f = "useEffectiveEndMs" THEN v ELSE opts[f]] : v \in BOOLEAN}

\* C26: useEffectiveEndMs changes nothing: whatever the files and the other
\* options of a call, the call returns the same mergedCues, warnings and
\* errors with the option true, false and absent.
C26_EffectiveEndIsNoOp ==
  Done =>
    \A opts \in EffectiveEndSettings(options) :
      mergeParsedFilesSequential(parsedFiles, opts) = result

\* A call with useEffectiveEndMs: false on two files with cues, the first of
\* which ends after 0, so that appending by its end moves the second.
C26_Witness ==
  /\ Done
  /\ options = [useEffectiveEndMs |-> FALSE]
  /\ Len(parsedFiles) = 2
  /\ Len(result.mergedCues) = 2
  /\ result.mergedCues[2].sourceFileIndex = 1
  /\ result.mergedCues[2].startMs > parsedFiles[2].cues[1].startMs

\* The file list with cue k of file f (both counted from 1) taken out.
WithoutCue(fs, f, k) ==
  [fs EXCEPT ![f].cues = SubSeq(fs[f].cues, 1, k - 1)
                           \o SubSeq(fs[f].cues, k + 1, Len(fs[f].cues))]

IsMalformed(cue) == ~IsFinite(cue.startMs) \/ ~IsFinite(cue.endMs)

\* C29: a cue that is skipped as malformed contributes nothing: the call on
\* the file list without that cue returns the same mergedCues.
C29_MalformedCueContributesNothing ==
  Done =>
    \A f \in 1 .. Len(parsedFiles) : \A k \in 1 .. Len(parsedFiles[f].cues) :
      IsMalformed(parsedFiles[f].cues[k]) =>
        mergeParsedFilesSequential(WithoutCue(parsedFiles, f, k), options).mergedCues
          = result.mergedCues

(***************************************************************************)
(* Further properties of the App.                                          *)
(***************************************************************************)
\* One entry for each file of fs that is not primary, in their order, each
\* holding the end of the primary file of fs.
OffsetsOfCurrentPrimary(fs, offsets) ==
  LET secondary == secondaryFiles(fs)
  IN /\ Len(offsets) = Len(secondary)
     /\ \A k \in 1 .. Len(secondary) :
          /\ offsets[k].id = secondary[k].id
          /\ offsets[k].offsetMs = primaryEndMs(fs)

\* C27: in shift mode auto, whenever Merge is pressed with two or more files
\* in the list, the computed offsets the App holds have one entry for each
\* file that is not primary, equal to the end of the current primary file.
C27_AutoOffsetsCurrentAtMerge ==
  [][(handleMerge /\ mode = "auto" /\ Len(files) >= 2)
       => OffsetsOfCurrentPrimary(files, computedOffsets)]_vars

\* C28: whenever the file list is not empty exactly one of its files is primary.
C28_ExactlyOnePrimary ==
  Len(files) > 0 => Cardinality({i \in 1 .. Len(files) : files[i].isPrimary}) = 1

====
